---- MODULE Spec2Model ----
(***************************************************************************)
(* The search-query parser of rslib/src/search/parser.rs.                  *)
(*                                                                         *)
(* A string is a sequence of characters; a character is a one-character    *)
(* TLA+ string, except the full-width space U+3000, which is named.        *)
(* The nom combinators are modelled by what they return: Ok with the       *)
(* remaining input and the output, a soft Error (nom::Err::Error, the      *)
(* backtracking signal) or a hard Failure (nom::Err::Failure).             *)
(* The recursion parse -> group_inner -> node -> group -> group_inner is   *)
(* modelled with an explicit call stack of group_inner frames.             *)
(***************************************************************************)
EXTENDS Integers, Sequences, FiniteSets, TLC

Backslash == "\\"
Quote == "\""
IdeographicSpace == "U+3000"

(* ---------------------------------------------------------------------- *)
(* Results                                                                 *)
(* ---------------------------------------------------------------------- *)

\* A failure kind: the variant of SearchErrorKind and the data it carries.
FailKind(name, arg) == [name |-> name, arg |-> arg]

NoArg == <<>>

\* Ok((rem, out)) of an IResult.
Ok(rem, out) == [st |-> "Ok", rem |-> rem, out |-> out]

\* Ok(out) of a ParseResult.
OkVal(out) == [st |-> "Ok", out |-> out]

\* nom::Err::Failure(ParseError::Anki(input, kind))
parse_failure(inp, kind) == [st |-> "Failure", at |-> inp, kind |-> kind]

\* nom::Err::Error(ParseError::Anki(input, FailKind::Other(None)))
parse_error(inp) ==
    [st |-> "Error", at |-> inp, kind |-> FailKind("Other", NoArg)]

\* nom::Err::Error of a nom combinator with nom's ErrorKind.
NomError(inp, nomkind) ==
    [st |-> "Error", at |-> inp, kind |-> FailKind("Nom", nomkind)]

\* A panicking operation was reached (unwrap on None, unreachable!(), a slice
\* out of range, an arithmetic underflow).
Panic(what) == [st |-> "Panic", at |-> <<>>, kind |-> FailKind("Panic", what)]

(* ---------------------------------------------------------------------- *)
(* Nodes                                                                   *)
(* ---------------------------------------------------------------------- *)

And == [t |-> "And"]
Or == [t |-> "Or"]
Not(child) == [t |-> "Not", child |-> child]
Group(children) == [t |-> "Group", children |-> children]
Search(sn) == [t |-> "Search", sn |-> sn]

UnqualifiedText(text) == [kind |-> "UnqualifiedText", text |-> text]
SingleField(field, text, is_re) ==
    [kind |-> "SingleField", field |-> field, text |-> text, is_re |-> is_re]
WholeCollection == [kind |-> "WholeCollection"]
TextNode(kind, text) == [kind |-> kind, text |-> text]

(* ---------------------------------------------------------------------- *)
(* Characters and strings                                                  *)
(* ---------------------------------------------------------------------- *)

Suffix(s, i) == SubSeq(s, i, Len(s))
Prefix(s, n) == SubSeq(s, 1, n)

UpperChars == <<"A","B","C","D","E","F","G","H","I","J","K","L","M",
                "N","O","P","Q","R","S","T","U","V","W","X","Y","Z">>
LowerChars == <<"a","b","c","d","e","f","g","h","i","j","k","l","m",
                "n","o","p","q","r","s","t","u","v","w","x","y","z">>

\* char::to_ascii_lowercase
CharLower(c) ==
    IF \E i \in 1..26 : UpperChars[i] = c
    THEN LowerChars[CHOOSE i \in 1..26 : UpperChars[i] = c]
    ELSE c

\* str::to_ascii_lowercase
to_ascii_lowercase(s) == [i \in 1..Len(s) |-> CharLower(s[i])]

\* str::eq_ignore_ascii_case
eq_ignore_ascii_case(s, t) == to_ascii_lowercase(s) = to_ascii_lowercase(t)

\* The characters of char::is_whitespace that the inputs can hold.
WhiteSpace == {" ", IdeographicSpace, "\t", "\n", "\r"}

RECURSIVE trim_start(_)
trim_start(s) ==
    IF s # <<>> /\ s[1] \in WhiteSpace THEN trim_start(Tail(s)) ELSE s

RECURSIVE trim_end(_)
trim_end(s) ==
    IF s # <<>> /\ s[Len(s)] \in WhiteSpace
    THEN trim_end(Prefix(s, Len(s) - 1))
    ELSE s

\* str::trim
trim(s) == trim_end(trim_start(s))

\* The characters one_of(" \u{3000}") accepts.
SpaceChars == {" ", IdeographicSpace}

\* many0(one_of(" \u{3000}")): never fails; only the remaining input is used.
RECURSIVE whitespace0(_)
whitespace0(s) ==
    IF s # <<>> /\ s[1] \in SpaceChars THEN whitespace0(Tail(s)) ELSE s

(* ---------------------------------------------------------------------- *)
(* nom::bytes::complete::escaped(is_not(excl), '\\', escapable)            *)
(* excl always holds the backslash. The escapable parser is none_of(bad)   *)
(* (anychar is none_of of nothing: here it is never run on empty input).   *)
(* ---------------------------------------------------------------------- *)

RECURSIVE escaped_from(_, _, _, _)
escaped_from(inp, i, excl, bad) ==
    IF i > Len(inp) THEN Ok(<<>>, inp)
    ELSE IF inp[i] \notin excl THEN escaped_from(inp, i + 1, excl, bad)
    ELSE IF inp[i] = Backslash THEN
        IF i + 1 > Len(inp) THEN NomError(inp, "Escaped")
        ELSE IF inp[i + 1] \in bad
             THEN NomError(Suffix(inp, i + 1), "NoneOf")
             ELSE escaped_from(inp, i + 2, excl, bad)
    ELSE IF i = 1 THEN NomError(inp, "Escaped")
    ELSE Ok(Suffix(inp, i), Prefix(inp, i - 1))

escaped(inp, excl, bad) == escaped_from(inp, 1, excl, bad)

(* ---------------------------------------------------------------------- *)
(* Escaping engine                                                         *)
(* ---------------------------------------------------------------------- *)

\* Option<T>
None == [some |-> FALSE]
Some(v) == [some |-> TRUE, v |-> v]

\* The class [\\":*_()-] of invalid_escape_sequence's pattern.
EscapableChars == {Backslash, Quote, ":", "*", "_", "(", ")", "-"}

\* The class [":()-] of is_parser_escape's pattern.
ParserEscapeChars == {Quote, ":", "(", ")", "-"}

\* The class [\\":()-] of unescape's replacement pattern.
ReplacedChars == {Backslash, Quote, ":", "(", ")", "-"}

\* The number of consecutive backslashes of txt from index q on.
RECURSIVE BackslashRun(_, _)
BackslashRun(txt, q) ==
    IF q <= Len(txt) /\ txt[q] = Backslash THEN 1 + BackslashRun(txt, q + 1) ELSE 0

\* (?:^|[^\\]) ends right before index q: q is the start of the text, or follows
\* a character that is no backslash.
AnchorBefore(txt, q) == q = 1 \/ (q - 1 <= Len(txt) /\ txt[q - 1] # Backslash)

\* (?:\\\\)*(\\(?:[^\\":*_()-]|$)) matches at q, where r backslashes start: an
\* even number of backslashes and one more, then a character outside the class or
\* the end of the text. That character is no backslash, so the backslashes
\* matched are all r.
InvalidRun(txt, q, r) ==
    r % 2 = 1 /\ (q + r > Len(txt) \/ txt[q + r] \notin EscapableChars)

InvalidEscapeAt(txt, q) ==
    AnchorBefore(txt, q) /\ InvalidRun(txt, q, BackslashRun(txt, q))

\* The leftmost match of invalid_escape_sequence's pattern: the index where its
\* backslashes start, 0 if there is no match.
RECURSIVE first_invalid_escape(_, _)
first_invalid_escape(txt, q) ==
    IF q > Len(txt) THEN 0
    ELSE IF InvalidEscapeAt(txt, q) THEN q
    ELSE first_invalid_escape(txt, q + 1)

\* caps[1] of the match whose last backslash is at e - 1: that backslash and the
\* character after it, if there is one.
escape_capture(txt, e) ==
    <<Backslash>> \o (IF e <= Len(txt) THEN <<txt[e]>> ELSE <<>>)

escape_captures(txt, q) ==
    IF q = 0 THEN None ELSE Some(escape_capture(txt, q + BackslashRun(txt, q)))

\* Return invalid escape sequence if any.
invalid_escape_sequence(txt) == escape_captures(txt, first_invalid_escape(txt, 1))

\* (?:\\\\)*\\[":()-] matches at q, where r backslashes start.
ParserEscapeRun(txt, q, r) ==
    r % 2 = 1 /\ q + r <= Len(txt) /\ txt[q + r] \in ParserEscapeChars

\* Check string for escape sequences handled by the parser: ":()-
is_parser_escape(txt) ==
    \E q \in 1..Len(txt) :
        AnchorBefore(txt, q) /\ ParserEscapeRun(txt, q, BackslashRun(txt, q))

\* The closure replacing every match by the character after the backslash, the
\* backslash too.
UnescapeEvery(c) == Some(<<c>>)

\* The closure without its arm for the escaped backslash.
UnescapeWithoutBackslash(c) ==
    CASE c = Quote -> Some(<<Quote>>)
      [] c = ":" -> Some(<<":">>)
      [] c = "(" -> Some(<<"(">>)
      [] c = ")" -> Some(<<")">>)
      [] c = "-" -> Some(<<"-">>)
      [] OTHER -> None

\* The closure of replace_all: the replacement of one match of \\[\\":()-], by
\* the character after the backslash.
UnescapeMatch(c) ==
    CASE c = Backslash -> Some(<<Backslash, Backslash>>)
      [] c = Quote -> Some(<<Quote>>)
      [] c = ":" -> Some(<<":">>)
      [] c = "(" -> Some(<<"(">>)
      [] c = ")" -> Some(<<")">>)
      [] c = "-" -> Some(<<"-">>)
      [] OTHER -> None

\* first, then rest, unless one of them is None (the closure panicked).
SomeConcat(first, rest) ==
    IF first.some /\ rest.some THEN Some(first.v \o rest.v) ELSE None

\* RE.replace_all(txt, closure) for \\[\\":()-]: the non-overlapping matches from
\* left to right. The result is None if the closure reached unreachable!().
RECURSIVE replace_all_from(_, _)
replace_all_from(txt, i) ==
    IF i > Len(txt) THEN Some(<<>>)
    ELSE IF txt[i] = Backslash /\ i + 1 <= Len(txt) /\ txt[i + 1] \in ReplacedChars
    THEN SomeConcat(UnescapeMatch(txt[i + 1]), replace_all_from(txt, i + 2))
    ELSE SomeConcat(Some(<<txt[i]>>), replace_all_from(txt, i + 1))

unescape_replaced(r) == IF r.some THEN OkVal(r.v) ELSE Panic("unreachable")

unescape_checked(txt, seq) ==
    IF seq.some THEN parse_failure(txt, FailKind("UnknownEscape", seq.v))
    ELSE IF is_parser_escape(txt) THEN unescape_replaced(replace_all_from(txt, 1))
    ELSE OkVal(txt)

\* Unescape chars with special meaning to the parser.
unescape(txt) == unescape_checked(txt, invalid_escape_sequence(txt))

\* str::replace for a pattern of two characters: the non-overlapping occurrences
\* from left to right.
RECURSIVE replace2(_, _, _, _)
replace2(s, c1, c2, to) ==
    IF s = <<>> THEN <<>>
    ELSE IF Len(s) >= 2 /\ s[1] = c1 /\ s[2] = c2
    THEN to \o replace2(Suffix(s, 3), c1, c2, to)
    ELSE <<s[1]>> \o replace2(Tail(s), c1, c2, to)

contains(s, c) == \E i \in 1..Len(s) : s[i] = c

\* For strings without unescaped ", convert \" to "
unescape_quotes(s) ==
    IF contains(s, Quote) THEN replace2(s, Backslash, Quote, <<Quote>>) ELSE s

\* For non-globs like dupe text without any assumption about the content
unescape_quotes_and_backslashes(s) ==
    IF contains(s, Quote) \/ contains(s, Backslash)
    THEN replace2(replace2(s, Backslash, Quote, <<Quote>>),
                  Backslash, Backslash, <<Backslash>>)
    ELSE s

(* ---------------------------------------------------------------------- *)
(* Integer parsing (core::num, FromStr)                                    *)
(* An integer is kept as its sign and its decimal digits without leading   *)
(* zeros, so that no width is lost.                                        *)
(* ---------------------------------------------------------------------- *)

Digits == <<"0","1","2","3","4","5","6","7","8","9">>
IsDigit(c) == \E i \in 1..10 : Digits[i] = c
DigitVal(c) == (CHOOSE i \in 1..10 : Digits[i] = c) - 1
AllDigits(s) == \A i \in 1..Len(s) : IsDigit(s[i])

RECURSIVE StripZeros(_)
StripZeros(ds) ==
    IF Len(ds) > 1 /\ ds[1] = "0" THEN StripZeros(Tail(ds)) ELSE ds

\* a <= b for digit sequences of one length
RECURSIVE DigitsLexLE(_, _)
DigitsLexLE(a, b) ==
    IF a = <<>> THEN TRUE
    ELSE IF DigitVal(a[1]) # DigitVal(b[1]) THEN DigitVal(a[1]) < DigitVal(b[1])
    ELSE DigitsLexLE(Tail(a), Tail(b))

\* a <= b for digit sequences without leading zeros
DigitsLE(a, b) == Len(a) < Len(b) \/ (Len(a) = Len(b) /\ DigitsLexLE(a, b))

Num(neg, digits) == [neg |-> neg, digits |-> digits]
NumZero == Num(FALSE, <<"0">>)
NumOne == Num(FALSE, <<"1">>)

U8Max == <<"2","5","5">>
U16Max == <<"6","5","5","3","5">>
U32Max == <<"4","2","9","4","9","6","7","2","9","5">>
I32Max == <<"2","1","4","7","4","8","3","6","4","7">>
I32MinAbs == <<"2","1","4","7","4","8","3","6","4","8">>
I64Max == <<"9","2","2","3","3","7","2","0","3","6","8","5","4","7","7","5","8","0","7">>
I64MinAbs == <<"9","2","2","3","3","7","2","0","3","6","8","5","4","7","7","5","8","0","8">>

\* The digits after the sign, if they are digits and there is one.
number_in_range(neg, body, max) ==
    IF body = <<>> \/ ~AllDigits(body) THEN None
    ELSE IF DigitsLE(StripZeros(body), max)
    THEN Some(Num(neg /\ StripZeros(body) # <<"0">>, StripZeros(body)))
    ELSE None

\* from_str_radix(s, 10) of an unsigned type: an optional '+', then at least one
\* digit; a value above the type's maximum is an error.
parse_unsigned(s, max) ==
    number_in_range(FALSE, IF s # <<>> /\ s[1] = "+" THEN Tail(s) ELSE s, max)

\* from_str_radix(s, 10) of a signed type: an optional '+' or '-', then at least
\* one digit; a value outside the type's range is an error.
parse_signed(s, max, minabs) ==
    IF s # <<>> /\ s[1] = "-" THEN number_in_range(TRUE, Tail(s), minabs)
    ELSE number_in_range(FALSE, IF s # <<>> /\ s[1] = "+" THEN Tail(s) ELSE s, max)

\* The value of a number of at most 16 bits.
RECURSIVE DigitsToInt(_)
DigitsToInt(ds) ==
    IF ds = <<>> THEN 0
    ELSE DigitsToInt(Prefix(ds, Len(ds) - 1)) * 10 + DigitVal(ds[Len(ds)])

\* u32::max(self, 1)
NumMax1(n) == IF n = NumZero THEN NumOne ELSE n

\* i32::min(self, 0)
NumMin0(n) == IF n.neg THEN n ELSE NumZero

\* i32::to_string, u32::to_string
NumToString(n) == (IF n.neg THEN <<"-">> ELSE <<>>) \o n.digits

\* The index of the first c in s, 0 if there is none.
RECURSIVE first_index(_, _, _)
first_index(s, c, i) ==
    IF i > Len(s) THEN 0
    ELSE IF s[i] = c THEN i
    ELSE first_index(s, c, i + 1)

split_at(s, i) ==
    IF i = 0 THEN [head |-> s, tail |-> None]
    ELSE [head |-> Prefix(s, i - 1), tail |-> Some(Suffix(s, i + 1))]

\* str::splitn(2, c): the part before the first c, and the rest if there is a c.
splitn2(s, c) == split_at(s, first_index(s, c, 1))

starts_with(s, p) == Len(s) >= Len(p) /\ Prefix(s, Len(p)) = p

(* ---------------------------------------------------------------------- *)
(* Predicate dispatcher                                                    *)
(* ---------------------------------------------------------------------- *)

\* SearchNode::Deck(unescape(val)?) and the like: u is unescape's result.
text_predicate(kind, u) ==
    IF u.st = "Ok" THEN OkVal(TextNode(kind, u.out)) ELSE u

CardTemplate(template) == [kind |-> "CardTemplate", template |-> template]
Ordinal(n) == [t |-> "Ordinal", n |-> n]
Name(name) == [t |-> "Name", name |-> name]

\* n.max(1) - 1 in 16 bits without sign, m being n.max(1).
template_ordinal(m) ==
    IF m - 1 < 0 THEN Panic("underflow") ELSE OkVal(CardTemplate(Ordinal(m - 1)))

template_name(u) == IF u.st = "Ok" THEN OkVal(CardTemplate(Name(u.out))) ELSE u

\* The ordinal taken without the floor of 1.
u16_unclamped(n) == n

u16_max1(n) == IF n >= 1 THEN n ELSE 1

template_of(s, p) ==
    IF p.some THEN template_ordinal(u16_max1(DigitsToInt(p.v.digits)))
    ELSE template_name(unescape(s))

parse_template(s) == template_of(s, parse_unsigned(s, U16Max))

flag_of(s, p) ==
    IF p.some /\ DigitsToInt(p.v.digits) <= 4
    THEN OkVal([kind |-> "Flag", flag |-> DigitsToInt(p.v.digits)])
    ELSE parse_failure(s, FailKind("InvalidFlag", NoArg))

\* flag:0-4
parse_flag(s) == flag_of(s, parse_unsigned(s, U8Max))

Rated(days, ease) == [kind |-> "Rated", days |-> days, ease |-> ease]
AnswerButton(u) == [e |-> "AnswerButton", button |-> u]
AnyAnswerButton == [e |-> "AnyAnswerButton"]
ManualReschedule == [e |-> "ManualReschedule"]

resched_of(s, p) ==
    IF p.some THEN OkVal(Rated(p.v, ManualReschedule))
    ELSE parse_failure(s, FailKind("InvalidResched", NoArg))

\* eg resched:3
parse_resched(s) == resched_of(s, parse_unsigned(s, U32Max))

\* alt of tags: the first tag, in the order written, that s starts with.
RECURSIVE first_tag(_, _)
first_tag(tags, s) ==
    IF tags = <<>> THEN None
    ELSE IF starts_with(s, tags[1]) THEN Some(tags[1])
    ELSE first_tag(Tail(tags), s)

PropNames == << <<"i","v","l">>, <<"d","u","e">>, <<"r","e","p","s">>,
                <<"l","a","p","s","e","s">>, <<"e","a","s","e">>, <<"p","o","s">>,
                <<"r","a","t","e","d">>, <<"r","e","s","c","h","e","d">> >>
\* The operators with the one-character ones tried first.
PropOperatorsShortFirst ==
    << <<"=">>, <<"<">>, <<">">>, <<"<","=">>, <<">","=">>, <<"!","=">> >>

PropOperators == << <<"<","=">>, <<">","=">>, <<"!","=">>, <<"=">>, <<"<">>, <<">">> >>

strip_sign(s) == IF s # <<>> /\ s[1] \in {"+", "-"} THEN Tail(s) ELSE s

decimal_parts(mant, dot) ==
    IF dot = 0 THEN mant # <<>> /\ AllDigits(mant)
    ELSE /\ AllDigits(Prefix(mant, dot - 1))
         /\ AllDigits(Suffix(mant, dot + 1))
         /\ Len(mant) >= 2

float_parts(low, e) ==
    IF e = 0 THEN decimal_parts(low, first_index(low, ".", 1))
    ELSE /\ decimal_parts(Prefix(low, e - 1), first_index(Prefix(low, e - 1), ".", 1))
         /\ strip_sign(Suffix(low, e + 1)) # <<>>
         /\ AllDigits(strip_sign(Suffix(low, e + 1)))

float_literal(low) ==
    \/ low \in {<<"i","n","f">>, <<"i","n","f","i","n","i","t","y">>, <<"n","a","n">>}
    \/ float_parts(low, first_index(low, "e", 1))

\* str::parse::<f32> succeeds: the text is a float literal. The value is kept as
\* the literal.
IsFloatLiteral(s) == float_literal(to_ascii_lowercase(strip_sign(s)))

Property(operator, kind) ==
    [kind |-> "Property", operator |-> operator, prop |-> kind]

prop_number(s, prop, operator, kind, p, failname) ==
    IF p.some THEN OkVal(Property(operator, [p |-> kind, n |-> p.v]))
    ELSE parse_failure(s, FailKind(failname, prop \o operator))

prop_rated_ease(s, prop, operator, days, u) ==
    IF u.some THEN
        IF DigitsToInt(u.v.digits) \in 1..4
        THEN OkVal(Property(operator,
                [p |-> "Rated", n |-> days,
                 ease |-> AnswerButton(DigitsToInt(u.v.digits))]))
        ELSE parse_failure(s, FailKind("InvalidRatedEase",
                <<"p","r","o","p",":">> \o prop \o operator \o NumToString(days)))
    ELSE parse_failure(s, FailKind("InvalidPropInteger", prop \o operator))

prop_rated_days(s, prop, operator, it, i) ==
    IF ~i.some THEN parse_failure(s, FailKind("InvalidPropInteger", prop \o operator))
    ELSE IF it.tail.some
    THEN prop_rated_ease(s, prop, operator, NumMin0(i.v),
                         parse_unsigned(it.tail.v, U8Max))
    ELSE OkVal(Property(operator,
            [p |-> "Rated", n |-> NumMin0(i.v), ease |-> AnyAnswerButton]))

prop_rated(s, prop, operator, it) ==
    prop_rated_days(s, prop, operator, it, parse_signed(it.head, I32Max, I32MinAbs))

prop_resched(s, prop, operator, i) ==
    IF i.some
    THEN OkVal(Property(operator,
            [p |-> "Rated", n |-> NumMin0(i.v), ease |-> ManualReschedule]))
    ELSE parse_failure(s, FailKind("InvalidPropInteger", prop \o operator))

prop_unsigned(s, prop, operator, u) ==
    IF u.some THEN
        CASE prop = <<"i","v","l">> ->
                OkVal(Property(operator, [p |-> "Interval", n |-> u.v]))
          [] prop = <<"r","e","p","s">> ->
                OkVal(Property(operator, [p |-> "Reps", n |-> u.v]))
          [] prop = <<"l","a","p","s","e","s">> ->
                OkVal(Property(operator, [p |-> "Lapses", n |-> u.v]))
          [] prop = <<"p","o","s">> ->
                OkVal(Property(operator, [p |-> "Position", n |-> u.v]))
          [] OTHER -> Panic("unreachable")
    ELSE parse_failure(s, FailKind("InvalidPropUnsigned", prop \o operator))

\* parse_prop from the value on: num is the text after the operator.
prop_kind(s, prop, operator, num) ==
    IF prop = <<"e","a","s","e">> THEN
        IF IsFloatLiteral(num)
        THEN OkVal(Property(operator, [p |-> "Ease", f |-> num]))
        ELSE parse_failure(s, FailKind("InvalidPropFloat", prop \o operator))
    ELSE IF prop = <<"d","u","e">> THEN
        prop_number(s, prop, operator, "Due", parse_signed(num, I32Max, I32MinAbs),
                    "InvalidPropInteger")
    ELSE IF prop = <<"r","a","t","e","d">> THEN
        prop_rated(s, prop, operator, splitn2(num, ":"))
    ELSE IF prop = <<"r","e","s","c","h","e","d">> THEN
        prop_resched(s, prop, operator, parse_signed(num, I32Max, I32MinAbs))
    ELSE prop_unsigned(s, prop, operator, parse_unsigned(num, U32Max))

\* parse_prop from the operator on: ot is the operator tag found after the name.
prop_operator(s, prop, ot) ==
    IF ~ot.some THEN parse_failure(s, FailKind("InvalidPropOperator", prop))
    ELSE prop_kind(s, prop, ot.v, Suffix(s, Len(prop) + Len(ot.v) + 1))

\* parse_prop from the name on: pt is the name tag found.
prop_name(s, pt) ==
    IF ~pt.some THEN parse_failure(s, FailKind("InvalidPropProperty", s))
    ELSE prop_operator(s, pt.v, first_tag(PropOperators, Suffix(s, Len(pt.v) + 1)))

\* eg prop:ivl>3, prop:ease!=2.5
parse_prop(s) == prop_name(s, first_tag(PropNames, s))

days_of(s, kind, p, failname) ==
    IF p.some THEN OkVal([kind |-> kind, days |-> NumMax1(p.v)])
    ELSE parse_failure(s, FailKind(failname, NoArg))

\* eg added:1
parse_added(s) == days_of(s, "AddedInDays", parse_unsigned(s, U32Max), "InvalidAdded")

\* eg edited:1
parse_edited(s) ==
    days_of(s, "EditedInDays", parse_unsigned(s, U32Max), "InvalidEdited")

rated_ease(s, days, u) ==
    IF u.some /\ DigitsToInt(u.v.digits) > 0 /\ DigitsToInt(u.v.digits) < 5
    THEN OkVal(Rated(days, AnswerButton(DigitsToInt(u.v.digits))))
    ELSE parse_failure(s, FailKind("InvalidRatedEase",
                <<"r","a","t","e","d",":">> \o NumToString(days)))

rated_days(s, it, p) ==
    IF p.some THEN
        IF it.tail.some
        THEN rated_ease(s, NumMax1(p.v), parse_unsigned(it.tail.v, U8Max))
        ELSE OkVal(Rated(NumMax1(p.v), AnyAnswerButton))
    ELSE parse_failure(s, FailKind("InvalidRatedDays", NoArg))

rated_parts(s, it) == rated_days(s, it, parse_unsigned(it.head, U32Max))

\* eg rated:3 or rated:10:2
\* second arg must be between 1-4
parse_rated(s) == rated_parts(s, splitn2(s, ":"))

StateNames ==
    << <<"n","e","w">>, <<"r","e","v","i","e","w">>, <<"l","e","a","r","n">>,
       <<"d","u","e">>, <<"b","u","r","i","e","d">>,
       <<"b","u","r","i","e","d","-","m","a","n","u","a","l","l","y">>,
       <<"b","u","r","i","e","d","-","s","i","b","l","i","n","g">>,
       <<"s","u","s","p","e","n","d","e","d">> >>
StateKinds == <<"New", "Review", "Learning", "Due", "Buried", "UserBuried",
                "SchedBuried", "Suspended">>

\* eg is:due
parse_state(s) ==
    IF \E i \in 1..Len(StateNames) : StateNames[i] = s
    THEN OkVal([kind |-> "State",
                state |-> StateKinds[CHOOSE i \in 1..Len(StateNames) :
                                        StateNames[i] = s]])
    ELSE parse_failure(s, FailKind("InvalidState", s))

\* str::parse of DeckID and NoteTypeID: wrappers of a signed 64-bit integer.
parse_id(s) == parse_signed(s, I64Max, I64MinAbs)

id_of(s, kind, p, failname) ==
    IF p.some THEN OkVal([kind |-> kind, id |-> p.v])
    ELSE parse_failure(s, FailKind(failname, NoArg))

parse_did(s) == id_of(s, "DeckID", parse_id(s), "InvalidDid")

parse_mid(s) == id_of(s, "NoteTypeID", parse_id(s), "InvalidMid")

\* ^(\d+,)*\d+$ : digits and commas, starting and ending with a digit, no two
\* commas in a row.
IdListMatches(s) ==
    /\ s # <<>>
    /\ \A i \in 1..Len(s) : IsDigit(s[i]) \/ s[i] = ","
    /\ IsDigit(s[1]) /\ IsDigit(s[Len(s)])
    /\ \A i \in 1..(Len(s) - 1) : ~(s[i] = "," /\ s[i + 1] = ",")

\* ensure a list of ids contains only numbers and commas, returning unchanged if true
check_id_list(s) ==
    IF IdListMatches(s) THEN OkVal(s)
    ELSE parse_failure(s, FailKind("InvalidIdList", NoArg))

\* SearchNode::NoteIDs(check_id_list(val)?) and CardIDs: c is check_id_list's
\* result.
ids_predicate(kind, c) ==
    IF c.st = "Ok" THEN OkVal([kind |-> kind, ids |-> c.out]) ELSE c

dupe_mid(s, it, mid) ==
    IF mid.some THEN
        IF it.tail.some
        THEN OkVal([kind |-> "Duplicates", note_type_id |-> mid.v,
                    text |-> unescape_quotes_and_backslashes(it.tail.v)])
        ELSE parse_failure(s, FailKind("InvalidDupeText", NoArg))
    ELSE parse_failure(s, FailKind("InvalidDupeMid", NoArg))

dupe_parts(s, it) == dupe_mid(s, it, parse_id(it.head))

\* eg dupe:1231,hello
parse_dupe(s) == dupe_parts(s, splitn2(s, ","))

\* The field search once the key is unescaped (k) and, for text that is no
\* regex, the value (v).
single_field_re(k, text) ==
    IF k.st = "Ok" THEN OkVal(SingleField(k.out, text, TRUE)) ELSE k

single_field_text(k, v) ==
    IF k.st # "Ok" THEN k
    ELSE IF v.st = "Ok" THEN OkVal(SingleField(k.out, v.out, FALSE))
    ELSE v

parse_single_field(key, val) ==
    IF starts_with(val, <<"r","e",":">>)
    THEN single_field_re(unescape(key), unescape_quotes(Suffix(val, 4)))
    ELSE single_field_text(unescape(key), unescape(val))

dispatch(k, key, val) ==
    CASE k = <<"d","e","c","k">> -> text_predicate("Deck", unescape(val))
      [] k = <<"n","o","t","e">> -> text_predicate("NoteType", unescape(val))
      [] k = <<"t","a","g">> -> text_predicate("Tag", unescape(val))
      [] k = <<"c","a","r","d">> -> parse_template(val)
      [] k = <<"f","l","a","g">> -> parse_flag(val)
      [] k = <<"r","e","s","c","h","e","d">> -> parse_resched(val)
      [] k = <<"p","r","o","p">> -> parse_prop(val)
      [] k = <<"a","d","d","e","d">> -> parse_added(val)
      [] k = <<"e","d","i","t","e","d">> -> parse_edited(val)
      [] k = <<"r","a","t","e","d">> -> parse_rated(val)
      [] k = <<"i","s">> -> parse_state(val)
      [] k = <<"d","i","d">> -> parse_did(val)
      [] k = <<"m","i","d">> -> parse_mid(val)
      [] k = <<"n","i","d">> -> ids_predicate("NoteIDs", check_id_list(val))
      [] k = <<"c","i","d">> -> ids_predicate("CardIDs", check_id_list(val))
      [] k = <<"r","e">> -> OkVal(TextNode("Regex", unescape_quotes(val)))
      [] k = <<"n","c">> -> text_predicate("NoCombining", unescape(val))
      [] k = <<"w">> -> text_predicate("WordBoundary", unescape(val))
      [] k = <<"d","u","p","e">> -> parse_dupe(val)
      [] OTHER -> parse_single_field(key, val)

\* Convert a colon-separated key/val pair into the relevant search type.
search_node_for_text_with_argument(key, val) ==
    dispatch(to_ascii_lowercase(key), key, val)

(* ---------------------------------------------------------------------- *)
(* Lexical primitives and text terms                                       *)
(* ---------------------------------------------------------------------- *)

unqualified_text(u) == IF u.st = "Ok" THEN OkVal(UnqualifiedText(u.out)) ELSE u

\* search_node_for_text once escaped has run on s, with result e. The slice
\* tail[1..] panics when index 1 is inside a character of several bytes.
search_node_for_head(s, e) ==
    IF e.st # "Ok" \/ e.out = <<>>
    THEN parse_failure(s, FailKind("MissingKey", NoArg))
    ELSE IF e.rem = <<>> THEN unqualified_text(unescape(e.out))
    ELSE IF e.rem[1] = IdeographicSpace THEN Panic("slice")
    ELSE search_node_for_text_with_argument(e.out, Suffix(e.rem, 2))

\* Determine if text is a qualified search, and handle escaped chars.
search_node_for_text(s) == search_node_for_head(s, escaped(s, {":", Backslash}, {}))

\* quoted_term_str once the opening quote is consumed and escaped has run on the
\* rest, opened, with result e.
quoted_str_inner(s, opened, e) ==
    IF e.st = "Ok"
    THEN IF e.rem # <<>> /\ e.rem[1] = Quote
         THEN Ok(Tail(e.rem), e.out)
         ELSE parse_failure(s, FailKind("UnclosedQuote", NoArg))
    ELSE IF opened = <<>> THEN Panic("unwrap")
    ELSE IF opened[1] = Quote
         THEN parse_failure(s, FailKind("EmptyQuote", NoArg))
         ELSE parse_failure(s, FailKind("UnclosedQuote", NoArg))

\* Non-empty string delimited by unescaped double quotes.
quoted_term_str(s) ==
    IF s = <<>> \/ s[1] # Quote THEN NomError(s, "Char")
    ELSE quoted_str_inner(s, Tail(s), escaped(Tail(s), {Quote, Backslash}, {}))

\* Ok((remaining, Node::Search(n?)))
search_term(rest, n) ==
    IF n.st = "Ok" THEN Ok(rest, Search(n.out)) ELSE n

quoted_term_of(q) ==
    IF q.st # "Ok" THEN q ELSE search_term(q.rem, search_node_for_text(q.out))

\* Quoted text, including the outer double quotes.
quoted_term(s) == quoted_term_of(quoted_term_str(s))

\* The characters that end the key of a partially quoted term.
KeyDelimiters == {Quote, "(", ")", ":", " ", IdeographicSpace}

\* The quoted value looked up without its key.
quoted_val_without_key(key, q) ==
    IF q.st # "Ok" THEN q
    ELSE search_term(q.rem, search_node_for_text(q.out))

partially_quoted_val(key, q) ==
    IF q.st # "Ok" THEN q
    ELSE search_term(q.rem, search_node_for_text_with_argument(key, q.out))

\* separated_pair(key, char(':'), quoted_term_str) once the key parser has run,
\* with result k.
partially_quoted_key(k) ==
    IF k.st # "Ok" THEN k
    ELSE IF k.rem = <<>> \/ k.rem[1] # ":" THEN NomError(k.rem, "Char")
    ELSE partially_quoted_val(k.out, quoted_term_str(Tail(k.rem)))

\* eg deck:"foo bar" - quotes must come after the :
partially_quoted_term(s) ==
    partially_quoted_key(escaped(s, KeyDelimiters \cup {Backslash}, SpaceChars))

\* The characters that end an unquoted term.
TermDelimiters == {Quote, "(", ")", " ", IdeographicSpace}

\* unquoted_term once escaped has run on s, with result e.
unquoted_term_of(s, e) ==
    IF e.st = "Ok" THEN
        IF e.out = <<>> THEN parse_error(s)
        ELSE IF eq_ignore_ascii_case(e.out, <<"a","n","d">>) THEN Ok(e.rem, And)
        ELSE IF eq_ignore_ascii_case(e.out, <<"o","r">>) THEN Ok(e.rem, Or)
        ELSE search_term(e.rem, search_node_for_text(e.out))
    ELSE
        IF e.kind.arg = "NoneOf"
        THEN parse_failure(s, FailKind("UnknownEscape", <<Backslash>> \o e.at))
        ELSE IF s = <<>> THEN Panic("unwrap")
        ELSE IF s[1] \in TermDelimiters THEN parse_error(s)
        ELSE parse_failure(s, FailKind("UnknownEscape", <<Backslash>>))

\* Unquoted text, terminated by whitespace or unescaped ", ( or )
unquoted_term(s) ==
    unquoted_term_of(s, escaped(s, TermDelimiters \cup {Backslash}, SpaceChars))

\* alt((a, b)): a's result unless it is a soft Error, and then b's.
alt2(a, b) == IF a.st # "Error" THEN a ELSE b

\* Either quoted or unquoted text
text(s) ==
    alt2(quoted_term(s), alt2(partially_quoted_term(s), unquoted_term(s)))

(* ---------------------------------------------------------------------- *)
(* Grammar engine                                                          *)
(* ---------------------------------------------------------------------- *)

\* char('(')(s) succeeds: group(s) goes on to call group_inner.
OpensGroup(s) == s # <<>> /\ s[1] = "("

\* node(s) reaches a call of group_inner: after the leading space, through group
\* or through negated_node's group.
EntersGroup(s) ==
    OpensGroup(whitespace0(s))
    \/ (whitespace0(s) # <<>> /\ whitespace0(s)[1] = "-"
        /\ OpensGroup(Tail(whitespace0(s))))

\* map(.., |node| Node::Not(Box::new(node)))
negate(r) == IF r.st = "Ok" THEN Ok(r.rem, Not(r.out)) ELSE r

\* negated_node backtracking out of every error of the text after the '-'.
negated_node_backtracking(s) ==
    IF s = <<>> \/ s[1] # "-" \/ text(Tail(s)).st # "Ok" THEN NomError(s, "Char")
    ELSE negate(text(Tail(s)))

\* negated_node(s) where the text after the '-' opens no group: group fails
\* softly on it and alt goes on to text.
negated_node(s) ==
    IF s = <<>> \/ s[1] # "-" THEN NomError(s, "Char")
    ELSE negate(text(Tail(s)))

\* alt((negated_node, group, text)) on an input that opens no group.
node_alt(t) == alt2(negated_node(t), text(t))

\* Optional leading space, then a (negated) group or text
node(s) == node_alt(whitespace0(s))

\* group_inner's loop without the test for an operator at an even position.
push_unchecked(inp, nodes, n) ==
    IF Len(nodes) % 2 = 1 /\ n \notin {And, Or}
    THEN OkVal(Append(Append(nodes, And), n))
    ELSE OkVal(Append(nodes, n))

\* group_inner's loop without the implicit And between two operands.
push_without_implicit_and(inp, nodes, n) ==
    IF Len(nodes) % 2 = 0 THEN
        IF n = And THEN parse_failure(inp, FailKind("MisplacedAnd", NoArg))
        ELSE IF n = Or THEN parse_failure(inp, FailKind("MisplacedOr", NoArg))
        ELSE OkVal(Append(nodes, n))
    ELSE OkVal(Append(nodes, n))

\* The body of group_inner's loop for Ok((rem, node)): the nodes after the
\* iteration, or the failure returned.
group_inner_push(inp, nodes, n) ==
    IF Len(nodes) % 2 = 0 THEN
        IF n = And THEN parse_failure(inp, FailKind("MisplacedAnd", NoArg))
        ELSE IF n = Or THEN parse_failure(inp, FailKind("MisplacedOr", NoArg))
        ELSE OkVal(Append(nodes, n))
    ELSE
        IF n \notin {And, Or} THEN OkVal(Append(Append(nodes, And), n))
        ELSE OkVal(Append(nodes, n))

\* group_inner after its loop without the check of the last node.
end_unchecked(inp, rest, nodes) == Ok(whitespace0(rest), nodes)

\* group_inner after its loop: the check of the last node, the trailing space.
group_inner_end(inp, rest, nodes) ==
    IF nodes # <<>> /\ nodes[Len(nodes)] = And
    THEN parse_failure(inp, FailKind("MisplacedAnd", NoArg))
    ELSE IF nodes # <<>> /\ nodes[Len(nodes)] = Or
    THEN parse_failure(inp, FailKind("MisplacedOr", NoArg))
    ELSE Ok(whitespace0(rest), nodes)

\* group without the test for an empty list of nodes.
close_allowing_empty(s, inner) ==
    IF inner.st # "Ok" THEN inner
    ELSE IF inner.rem # <<>> /\ inner.rem[1] = ")"
    THEN Ok(Tail(inner.rem), Group(inner.out))
    ELSE parse_failure(s, FailKind("UnclosedGroup", NoArg))

\* group(s) once group_inner(opened) has returned inner.
group_close(s, inner) ==
    IF inner.st # "Ok" THEN inner
    ELSE IF inner.rem # <<>> /\ inner.rem[1] = ")"
    THEN IF inner.out = <<>>
         THEN parse_failure(s, FailKind("EmptyGroup", NoArg))
         ELSE Ok(Tail(inner.rem), Group(inner.out))
    ELSE parse_failure(s, FailKind("UnclosedGroup", NoArg))

\* node's result once the group it entered at s has returned g: negated_node
\* wraps it in Not; alt goes on to the later alternatives after a soft Error.
node_after_group(s, negated, g) ==
    IF negated
    THEN alt2(negate(alt2(g, text(s))), text(<<"-">> \o s))
    ELSE alt2(g, text(s))

\* What parse returns. An error is converted with into(): the caller sees the
\* kind only.
ResultOk(nodes) == [st |-> "Ok", nodes |-> nodes]
ResultErr(kind) == [st |-> "Err", kind |-> kind]
Pending == [st |-> "Pending"]

\* The error parse returns for a result that is not Ok; a panic ends the call.
ResultOf(r) ==
    IF r.st = "Panic" THEN [st |-> "Panic", what |-> r.kind.arg]
    ELSE ResultErr(r.kind)

\* parse's match without the arm for input left over.
parse_match_ignoring_rest(r) ==
    IF r.st = "Ok" THEN ResultOk(r.out) ELSE ResultOf(r)

\* parse's match on group_inner's result.
parse_match(r) ==
    IF r.st = "Ok"
    THEN IF r.rem = <<>> THEN ResultOk(r.out)
         ELSE ResultErr(FailKind("UnopenedGroup", NoArg))
    ELSE ResultOf(r)

(* ---------------------------------------------------------------------- *)
(* The parser as a machine: a configuration is the position in parse, the  *)
(* stack of group_inner calls (innermost last), the remaining input of the *)
(* innermost call and parse's result.                                      *)
(* ---------------------------------------------------------------------- *)

\* A call of group_inner: its input and its nodes so far; for a call made by
\* group, the input of group (from the '(' on), whether negated_node made it,
\* and the remaining input of the loop that waits for it.
Frame(in, nodes, group, negated, caller) ==
    [input |-> in, nodes |-> nodes, group |-> group, negated |-> negated,
     caller |-> caller]

Config(p, st, rem, res) ==
    [pc |-> p, stack |-> st, remaining |-> rem, result |-> res]

Finished(res) == Config("done", <<>>, <<>>, res)

Top(st) == st[Len(st)]
Pop(st) == Prefix(st, Len(st) - 1)
SetNodes(st, nodes) == [st EXCEPT ![Len(st)].nodes = nodes]

start_trimmed(t) ==
    IF t = <<>> THEN Finished(ResultOk(<<Search(WholeCollection)>>))
    ELSE Config("loop", <<Frame(t, <<>>, <<>>, FALSE, <<>>)>>, t, Pending)

\* parse without the trim of its input.
parse_start_untrimmed(in) == start_trimmed(in)

\* parse up to its call of group_inner.
parse_start(in) == start_trimmed(trim(in))

\* The loop after group_inner_push, with its result p.
loop_pushed(st, rem, p) ==
    IF p.st = "Ok" THEN Config("loop", SetNodes(st, p.out), rem, Pending)
    ELSE Finished(ResultOf(p))

\* The loop's match returning every error of node, the soft ones too.
loop_match_returning_soft(st, rest, r) ==
    IF r.st = "Ok"
    THEN loop_pushed(st, r.rem, group_inner_push(Top(st).input, Top(st).nodes, r.out))
    ELSE Finished(ResultOf(r))

\* The loop's match leaving the remaining input as it was after a node.
loop_match_in_place(st, rest, r) ==
    IF r.st = "Ok"
    THEN loop_pushed(st, rest, group_inner_push(Top(st).input, Top(st).nodes, r.out))
    ELSE IF r.st = "Error" THEN Config("break", st, rest, Pending)
    ELSE Finished(ResultOf(r))

\* The innermost loop's match on a result r of node, with the stack st of the
\* calls down to that loop.
loop_match(st, rest, r) ==
    IF r.st = "Ok"
    THEN loop_pushed(st, r.rem, group_inner_push(Top(st).input, Top(st).nodes, r.out))
    ELSE IF r.st = "Error" THEN Config("break", st, rest, Pending)
    ELSE Finished(ResultOf(r))

\* One iteration of the innermost loop whose node call enters no group.
node_step(c) == loop_match(c.stack, c.remaining, node(c.remaining))

\* The call of group_inner at t, the input of node after its leading space.
group_call(c, t, negated) ==
    Config("loop",
           Append(c.stack,
                  Frame(IF negated THEN Suffix(t, 3) ELSE Tail(t), <<>>,
                        IF negated THEN Tail(t) ELSE t, negated, c.remaining)),
           IF negated THEN Suffix(t, 3) ELSE Tail(t), Pending)

group_enter_at(c, t) == group_call(c, t, t[1] = "-")

\* One iteration whose node call enters a group: group_inner is called on the
\* input after the '('.
group_enter(c) == group_enter_at(c, whitespace0(c.remaining))

\* The return of the innermost group_inner, f, with result r: to parse, or to
\* group and through it to the node call of the loop outside.
return_to(st, f, r) ==
    IF Len(st) = 1 THEN Finished(parse_match(r))
    ELSE loop_match(Pop(st), f.caller,
                    node_after_group(f.group, f.negated, group_close(f.group, r)))

return_from(st, rest, f) ==
    return_to(st, f, group_inner_end(f.input, rest, f.nodes))

\* The innermost group_inner leaves its loop and returns.
inner_return(c) == return_from(c.stack, c.remaining, Top(c.stack))

Step(c) ==
    IF c.pc = "loop"
    THEN IF EntersGroup(c.remaining) THEN group_enter(c) ELSE node_step(c)
    ELSE inner_return(c)

RECURSIVE Run(_)
Run(c) == IF c.pc = "done" THEN c.result ELSE Run(Step(c))

\* Parse the input string into a list of nodes.
parse(in) == Run(parse_start(in))

(* ---------------------------------------------------------------------- *)
(* State                                                                   *)
(* ---------------------------------------------------------------------- *)

VARIABLES
    input,      \* the string parse was called with
    pc,         \* "start", "loop" (in group_inner's loop), "break" (the loop
                \* was left), "done" (parse has returned)
    stack,      \* the calls of group_inner, innermost last
    remaining,  \* the remaining input of the innermost group_inner
    result      \* what parse returned

vars == <<input, pc, stack, remaining, result>>

Cfg == Config(pc, stack, remaining, result)

Becomes(c) ==
    /\ pc' = c.pc
    /\ stack' = c.stack
    /\ remaining' = c.remaining
    /\ result' = c.result
    /\ UNCHANGED input

\* The inputs: every concatenation of at most n of the given pieces.
RECURSIVE Inputs(_, _)
Inputs(pieces, n) ==
    IF n = 0 THEN {<<>>}
    ELSE Inputs(pieces, n - 1)
         \cup {s \o p : s \in Inputs(pieces, n - 1), p \in pieces}

MaxPieces == 5

\* The words, connectives and delimiters of the grammar.
GrammarPieces ==
    {<<"a">>, <<"a","n","d">>, <<"O","r">>, <<" ">>, <<"(">>, <<")">>, <<"-">>}

MaxBlanks == 4

\* The white space str::trim removes, around a word and a parenthesis.
BlankPieces ==
    {<<" ">>, <<IdeographicSpace>>, <<"\t">>, <<"\n">>, <<"a">>, <<"(">>}

InitWith(inputs) ==
    /\ input \in inputs
    /\ pc = "start"
    /\ stack = <<>>
    /\ remaining = <<>>
    /\ result = Pending

GrammarInputs ==
    Inputs(GrammarPieces, MaxPieces) \cup Inputs(BlankPieces, MaxBlanks)

Init == InitWith(GrammarInputs)

ParseStart ==
    /\ pc = "start"
    /\ Becomes(parse_start(input))

NodeStep ==
    /\ pc = "loop"
    /\ ~EntersGroup(remaining)
    /\ Becomes(node_step(Cfg))

GroupEnter ==
    /\ pc = "loop"
    /\ EntersGroup(remaining)
    /\ Becomes(group_enter(Cfg))

InnerReturn ==
    /\ pc = "break"
    /\ Becomes(inner_return(Cfg))

Next == ParseStart \/ NodeStep \/ GroupEnter \/ InnerReturn

Spec == Init /\ [][Next]_vars

MaxTextPieces == 4

\* The characters of the lexical layer: a letter and the characters with a
\* meaning to the parser.
TextPieces ==
    {<<"a">>, <<":">>, <<Quote>>, <<Backslash>>, <<"-">>, <<"(">>, <<")">>,
     <<" ">>}

MaxValuePieces == 2

\* What a value without space is made of: plain characters, among them ':' and
\* '-', and the escapes of the characters invalid_escape_sequence allows.
ValuePieces ==
    {<<"a">>, <<"1">>, <<"*">>, <<":">>, <<"-">>,
     <<Backslash, Quote>>, <<Backslash, ":">>, <<Backslash, "(">>,
     <<Backslash, ")">>, <<Backslash, "-">>, <<Backslash, Backslash>>,
     <<Backslash, "*">>, <<Backslash, "_">>}

Values == Inputs(ValuePieces, MaxValuePieces) \ {<<>>}

\* A field name and keys of search_node_for_text_with_argument.
Keys ==
    {<<"f">>, <<"d","e","c","k">>, <<"r","e">>, <<"i","s">>, <<"c","a","r","d">>}

\* key:"val", "key:val" and key:val
KeyQuotedVal(K, V) == K \o <<":", Quote>> \o V \o <<Quote>>
QuotedKeyVal(K, V) == <<Quote>> \o K \o <<":">> \o V \o <<Quote>>
KeyVal(K, V) == K \o <<":">> \o V

TextInputs ==
    Inputs(TextPieces, MaxTextPieces)
    \cup {KeyQuotedVal(K, V) : K \in Keys, V \in Values}
    \cup {QuotedKeyVal(K, V) : K \in Keys, V \in Values}
    \cup {KeyVal(K, V) : K \in Keys, V \in Values}

InitText == InitWith(TextInputs)

SpecText == InitText /\ [][Next]_vars

(* ---------------------------------------------------------------------- *)
(* Properties                                                              *)
(* ---------------------------------------------------------------------- *)

IsOperand(n) == n.t \in {"Search", "Not", "Group"}
IsOperator(n) == n.t \in {"And", "Or"}

\* Operands at the even indices (counted from 0), operators at the odd ones.
Alternates(nodes) ==
    \A i \in 1..Len(nodes) :
        IF i % 2 = 1 THEN IsOperand(nodes[i]) ELSE IsOperator(nodes[i])

\* A finished sequence: non-empty, of odd length (so it ends on an operand),
\* alternating, and so are the children of every group in it.
RECURSIVE FullyAlternates(_)
NodeAlternates(n) ==
    CASE n.t = "Group" -> FullyAlternates(n.children)
      [] n.t = "Not" /\ n.child.t = "Group" -> FullyAlternates(n.child.children)
      [] OTHER -> TRUE
FullyAlternates(nodes) ==
    /\ Len(nodes) % 2 = 1
    /\ Alternates(nodes)
    /\ \A i \in 1..Len(nodes) : NodeAlternates(nodes[i])

\* C1: every node sequence of a successful parse, at top level and in every
\* group at any depth, is non-empty, of odd length, holds operands at the even
\* indices and operators at the odd ones, and ends on an operand; the list of
\* every running group_inner alternates in the same way after each iteration,
\* and the groups already in it are finished sequences.
C1_Alternation ==
    /\ \A k \in 1..Len(stack) :
          /\ Alternates(stack[k].nodes)
          /\ \A i \in 1..Len(stack[k].nodes) : NodeAlternates(stack[k].nodes[i])
    /\ result.st = "Ok" => FullyAlternates(result.nodes)

\* A successful parse whose list holds a group of two operands joined by an
\* And.
C1_Witness ==
    /\ pc = "done" /\ result.st = "Ok"
    /\ \E i \in 1..Len(result.nodes) :
          /\ result.nodes[i].t = "Group"
          /\ Len(result.nodes[i].children) = 3
          /\ result.nodes[i].children[2] = And

\* Every Not in the sequence, at any depth, has a group or a leaf as its child.
RECURSIVE NotChildrenOk(_)
NotChildOk(n) ==
    CASE n.t = "Not" ->
            /\ n.child.t \in {"Group", "Search"}
            /\ n.child.t = "Group" => NotChildrenOk(n.child.children)
      [] n.t = "Group" -> NotChildrenOk(n.children)
      [] OTHER -> TRUE
NotChildrenOk(nodes) == \A i \in 1..Len(nodes) : NotChildOk(nodes[i])

\* C2: in the tree of a successful parse the child of every Not is a Group or a
\* Search leaf, never And, Or or another Not, also for a '-' directly before
\* the bare word and/or.
C2_NotChild == result.st = "Ok" => NotChildrenOk(result.nodes)

IsBlank(s) == \A i \in 1..Len(s) : s[i] \in WhiteSpace

\* C3: parse of an empty or all-whitespace input returns exactly the one node
\* Search(WholeCollection), and no successful parse returns an empty list.
C3_WholeCollection ==
    /\ pc = "done" /\ IsBlank(input)
           => result = ResultOk(<<Search(WholeCollection)>>)
    /\ result.st = "Ok" => result.nodes # <<>>

\* parse has returned for a blank input of three characters that holds a tab
\* and a full-width space.
C3_Witness ==
    /\ pc = "done"
    /\ Len(input) = 3 /\ IsBlank(input)
    /\ \E i \in 1..3 : input[i] = "\t"
    /\ \E i \in 1..3 : input[i] = IdeographicSpace
    /\ result = ResultOk(<<Search(WholeCollection)>>)

MaxOperandPieces == 3

SpacesOnly(s) == \A i \in 1..Len(s) : s[i] = " "

\* The operand terms: the inputs, with no space around them, for which parse
\* returns one node.
OperandTerms ==
    {T \in Inputs(GrammarPieces, MaxOperandPieces) :
        /\ T # <<>> /\ T[1] # " " /\ T[Len(T)] # " "
        /\ parse(T).st = "Ok" /\ Len(parse(T).nodes) = 1}

OperandNode(T) == parse(T).nodes[1]

\* B may follow A with nothing in between: A ends with the ')' of a group, or
\* B starts with the '(' of one and A is not the lone '-', which negates it.
Unambiguous(A, B) == A[Len(A)] = ")" \/ (B[1] = "(" /\ A # <<"-">>)

AndWord == <<" ", "a", "n", "d", " ">>
OrWord == <<" ", "O", "r", " ">>

\* What the claim says of the input A sep B, given the result for it.
JoinedAs(A, sep, B, res) ==
    /\ (sep # <<>> /\ SpacesOnly(sep)) \/ (sep = <<>> /\ Unambiguous(A, B))
          => /\ res = ResultOk(<<OperandNode(A), And, OperandNode(B)>>)
             /\ res = parse(A \o AndWord \o B)
    /\ sep = AndWord => res = ResultOk(<<OperandNode(A), And, OperandNode(B)>>)
    /\ sep = OrWord => res = ResultOk(<<OperandNode(A), Or, OperandNode(B)>>)

\* The same inside a group.
GroupedAs(A, sep, B, res) ==
    /\ (sep # <<>> /\ SpacesOnly(sep)) \/ (sep = <<>> /\ Unambiguous(A, B))
          => /\ res = ResultOk(<<Group(<<OperandNode(A), And, OperandNode(B)>>)>>)
             /\ res = parse(<<"(">> \o A \o AndWord \o B \o <<")">>)
    /\ sep = AndWord
          => res = ResultOk(<<Group(<<OperandNode(A), And, OperandNode(B)>>)>>)
    /\ sep = OrWord
          => res = ResultOk(<<Group(<<OperandNode(A), Or, OperandNode(B)>>)>>)

\* Every way to read s as A sep B with operand terms A and B.
PairsOf(s) ==
    {<<i, j>> \in (1..Len(s)) \X (1..Len(s) + 1) :
        /\ i < j
        /\ Prefix(s, i) \in OperandTerms
        /\ Suffix(s, j) \in OperandTerms}

\* C4: for operand terms A and B, the input 'A B', with spaces only between
\* them or with nothing where the boundary is unambiguous, parses to the
\* result of 'A and B', which is [A, And, B], at top level and inside a
\* group; with an explicit and/or between them the list holds that one
\* connective and no implicit And.
C4_ImplicitAnd ==
    pc = "done" =>
        /\ \A p \in PairsOf(input) :
              JoinedAs(Prefix(input, p[1]), SubSeq(input, p[1] + 1, p[2] - 1),
                       Suffix(input, p[2]), result)
        /\ Len(input) > 2 /\ input[1] = "(" /\ input[Len(input)] = ")"
              => \A p \in PairsOf(SubSeq(input, 2, Len(input) - 1)) :
                    GroupedAs(Prefix(SubSeq(input, 2, Len(input) - 1), p[1]),
                              SubSeq(input, p[1] + 2, p[2]),
                              Suffix(SubSeq(input, 2, Len(input) - 1), p[2]),
                              result)

\* parse has returned [Group, And, operand] for an input that spells no
\* connective and holds a space, but not at its ends.
C4_Witness ==
    /\ pc = "done" /\ result.st = "Ok"
    /\ \A i \in 1..Len(input) : input[i] \notin {"n", "r"}
    /\ \E i \in 1..Len(input) : input[i] = " "
    /\ input[1] # " " /\ input[Len(input)] # " "
    /\ Len(result.nodes) = 3
    /\ result.nodes[1].t = "Group"
    /\ result.nodes[2] = And

\* The next word of s: after the leading spaces, the characters up to the next
\* delimiter of an unquoted term.
RECURSIVE WordOf(_)
WordOf(s) ==
    IF s = <<>> \/ s[1] \in TermDelimiters THEN <<>>
    ELSE <<s[1]>> \o WordOf(Tail(s))
NextWord(s) == to_ascii_lowercase(WordOf(whitespace0(s)))

Misplaced(kind) == Finished(ResultErr(FailKind(kind, NoArg)))

\* The running group_inner has no node yet or an operator as its last one.
ExpectsOperand ==
    Top(stack).nodes = <<>> \/ IsOperator(Top(stack).nodes[Len(Top(stack).nodes)])

InputIs(s) == pc = "done" /\ input = s

\* C5: at top level and in every group, when the next word is a bare and/or,
\* in any case, where an operand is expected (as the first node or after an
\* operator), and when the sequence ends on an operator, parse fails with
\* MisplacedAnd for and, MisplacedOr for or, and returns no tree; so 'and',
\* 'a and', 'and a' fail with MisplacedAnd and 'Or', 'a Or', 'Or a' with
\* MisplacedOr.
C5_Misplaced ==
    /\ pc = "loop" /\ ExpectsOperand /\ NextWord(remaining) = <<"a", "n", "d">>
          => Step(Cfg) = Misplaced("MisplacedAnd")
    /\ pc = "loop" /\ ExpectsOperand /\ NextWord(remaining) = <<"o", "r">>
          => Step(Cfg) = Misplaced("MisplacedOr")
    /\ pc = "break" /\ Top(stack).nodes # <<>>
            /\ Top(stack).nodes[Len(Top(stack).nodes)] = And
          => Step(Cfg) = Misplaced("MisplacedAnd")
    /\ pc = "break" /\ Top(stack).nodes # <<>>
            /\ Top(stack).nodes[Len(Top(stack).nodes)] = Or
          => Step(Cfg) = Misplaced("MisplacedOr")
    /\ InputIs(<<"a", "n", "d">>) \/ InputIs(<<"a", " ", "a", "n", "d">>)
            \/ InputIs(<<"a", "n", "d", " ", "a">>)
          => result = ResultErr(FailKind("MisplacedAnd", NoArg))
    /\ InputIs(<<"O", "r">>) \/ InputIs(<<"a", " ", "O", "r">>)
            \/ InputIs(<<"O", "r", " ", "a">>)
          => result = ResultErr(FailKind("MisplacedOr", NoArg))

\* parse has failed with MisplacedOr for an input with a group whose sequence
\* ends on 'Or'.
C5_Witness ==
    /\ pc = "done"
    /\ result = ResultErr(FailKind("MisplacedOr", NoArg))
    /\ input = <<"(", "a", " ", "O", "r", ")">>

\* No group of the sequence, at any depth, has an empty list of children.
RECURSIVE NoEmptyGroup(_)
NodeHasChildren(n) ==
    CASE n.t = "Group" -> n.children # <<>> /\ NoEmptyGroup(n.children)
      [] n.t = "Not" /\ n.child.t = "Group" ->
            n.child.children # <<>> /\ NoEmptyGroup(n.child.children)
      [] OTHER -> TRUE
NoEmptyGroup(nodes) == \A i \in 1..Len(nodes) : NodeHasChildren(nodes[i])

\* The input left when the innermost group_inner returns starts with ')'.
AtClose == whitespace0(remaining) # <<>> /\ whitespace0(remaining)[1] = ")"

\* The loop that called group goes on, with the group, negated or not, as its
\* last node and the input after the ')'.
GroupReturned(c, children) ==
    /\ c.pc = "loop"
    /\ Len(c.stack) = Len(stack) - 1
    /\ Top(c.stack).nodes[Len(Top(c.stack).nodes)]
          = IF Top(stack).negated THEN Not(Group(children)) ELSE Group(children)
    /\ c.remaining = Tail(whitespace0(remaining))

GroupFailed(c, kind) == c = Finished(ResultErr(FailKind(kind, NoArg)))

\* C6: once group has consumed its '(', it returns Group(children) with at
\* least one child and the matching ')' consumed, or the parse fails: with
\* EmptyGroup when the ')' follows with spaces at most in between, with
\* UnclosedGroup when the inner sequence ends with no ')' after it; it never
\* returns a soft mismatch to the loop that called it, and no Group has an empty
\* list of children.
C6_GroupWellFormed ==
    /\ pc = "break" /\ Len(stack) > 1 =>
          /\ Step(Cfg).pc \in {"loop", "done"}
          /\ Step(Cfg).pc = "done" => Step(Cfg).result.st = "Err"
          /\ Step(Cfg).pc = "loop" =>
                /\ AtClose /\ Top(stack).nodes # <<>>
                /\ GroupReturned(Step(Cfg), Top(stack).nodes)
          /\ AtClose /\ Top(stack).nodes = <<>>
                => GroupFailed(Step(Cfg), "EmptyGroup")
          /\ ~AtClose /\ Top(stack).nodes # <<>>
                /\ IsOperand(Top(stack).nodes[Len(Top(stack).nodes)])
                => GroupFailed(Step(Cfg), "UnclosedGroup")
          /\ ~AtClose /\ Top(stack).nodes = <<>>
                => GroupFailed(Step(Cfg), "UnclosedGroup")
    /\ \A k \in 1..Len(stack) : NoEmptyGroup(stack[k].nodes)
    /\ result.st = "Ok" => NoEmptyGroup(result.nodes)

\* A negated group of one child has been closed inside another group, whose
\* loop goes on after the ')'.
C6_Witness ==
    /\ pc = "loop"
    /\ Len(stack) = 2
    /\ Len(stack[2].nodes) = 1
    /\ stack[2].nodes[1].t = "Not"
    /\ stack[2].nodes[1].child.t = "Group"

\* The kinds of failure the parser names, without Other.
TaxonomyKinds ==
    {"EmptyGroup", "EmptyQuote", "InvalidAdded", "InvalidDid", "InvalidDupeMid",
     "InvalidDupeText", "InvalidEdited", "InvalidFlag", "InvalidIdList",
     "InvalidMid", "InvalidPropFloat", "InvalidPropInteger",
     "InvalidPropOperator", "InvalidPropProperty", "InvalidPropUnsigned",
     "InvalidRatedDays", "InvalidRatedEase", "InvalidResched", "InvalidState",
     "MisplacedAnd", "MisplacedOr", "MissingKey", "UnclosedGroup",
     "UnclosedQuote", "UnknownEscape", "UnopenedGroup"}

\* C7: a failure of parse has one of the specific kinds; the soft error Other
\* never reaches the caller of parse: a group_inner that leaves its loop
\* returns Ok or a hard Failure, and a loop that stops the parse stops it with
\* a specific kind.
C7_NoOther ==
    /\ result.st = "Err" => result.kind.name \in TaxonomyKinds
    /\ pc = "break" =>
          group_inner_end(Top(stack).input, remaining, Top(stack).nodes).st
              \in {"Ok", "Failure"}
    /\ pc = "loop" /\ Step(Cfg).pc = "done" /\ Step(Cfg).result.st = "Err"
          => Step(Cfg).result.kind.name \in TaxonomyKinds

\* parse has failed with UnopenedGroup: node returned the soft error at a ')'
\* of the top level.
C7_Witness ==
    /\ pc = "done"
    /\ result = ResultErr(FailKind("UnopenedGroup", NoArg))
    /\ input = <<"a", ")">>

\* The index of the colon after the key of s, 0 if s has no colon.
KeyEnd(s) == first_index(s, ":", 1)

\* s spells key:"val" for one of the keys and one of the values.
IsKeyQuotedVal(s) ==
    /\ KeyEnd(s) > 1 /\ Len(s) > KeyEnd(s) + 2
    /\ s[KeyEnd(s) + 1] = Quote /\ s[Len(s)] = Quote
    /\ Prefix(s, KeyEnd(s) - 1) \in Keys
    /\ SubSeq(s, KeyEnd(s) + 2, Len(s) - 1) \in Values

KeyOf(s) == Prefix(s, KeyEnd(s) - 1)
QuotedValOf(s) == SubSeq(s, KeyEnd(s) + 2, Len(s) - 1)

\* C8: for a key K without special characters and a non-empty, validly escaped
\* value V without space and without unescaped '"', '(' or ')', parse returns
\* the same result, the same tree or the same error, for K:"V", "K:V" and K:V.
C8_Spellings ==
    pc = "done" /\ IsKeyQuotedVal(input) =>
        /\ result = parse(QuotedKeyVal(KeyOf(input), QuotedValOf(input)))
        /\ result = parse(KeyVal(KeyOf(input), QuotedValOf(input)))

\* parse has returned the field search for f:"a\"", whose value holds an
\* escaped quote.
C8_Witness ==
    /\ pc = "done"
    /\ input = KeyQuotedVal(<<"f">>, <<"a", Backslash, Quote>>)
    /\ result = ResultOk(<<Search(SingleField(<<"f">>, <<"a", Quote>>, FALSE))>>)

\* The text with its escape pairs resolved from left to right: a pair whose
\* second character is in literal becomes that character, every other pair
\* stays as its two characters.
RECURSIVE Resolved(_, _)
Resolved(s, literal) ==
    IF s = <<>> THEN <<>>
    ELSE IF s[1] = Backslash /\ Len(s) > 1
    THEN (IF s[2] \in literal THEN <<s[2]>> ELSE <<s[1], s[2]>>)
         \o Resolved(Suffix(s, 3), literal)
    ELSE <<s[1]>> \o Resolved(Tail(s), literal)

\* The result of parse for deck:"V" and f:"V" when unescape resolves the
\* escapes of the characters in literal.
UnescapedAs(s, literal) ==
    /\ KeyOf(s) = <<"d","e","c","k">> =>
          result = ResultOk(<<Search(TextNode("Deck",
                                Resolved(QuotedValOf(s), literal)))>>)
    /\ KeyOf(s) = <<"f">> =>
          result = ResultOk(<<Search(SingleField(<<"f">>,
                                Resolved(QuotedValOf(s), literal), FALSE))>>)

AtHyphen ==
    /\ pc = "loop"
    /\ whitespace0(remaining) # <<>>
    /\ whitespace0(remaining)[1] = "-"
    /\ ~OpensGroup(Tail(whitespace0(remaining)))

\* What text returns for the input right after the '-'.
AfterHyphen == text(Tail(whitespace0(remaining)))

\* The '-' is consumed as a negator: node returns Not of what follows it.
Negates ==
    node(remaining) = Ok(AfterHyphen.rem, Not(AfterHyphen.out))

\* The '-' is parsed as part of an unquoted text term.
HyphenIsText ==
    /\ node(remaining) = unquoted_term(whitespace0(remaining))
    /\ node(remaining).st = "Ok"
    /\ node(remaining).out.t = "Search"

\* The group entered after a '-' has returned: the loop outside gets its
\* negation.
NegatedGroupReturns ==
    pc = "break" /\ Len(stack) > 1 /\ Top(stack).negated /\ Step(Cfg).pc = "loop"
        => GroupReturned(Step(Cfg), Top(stack).nodes)

\* parse("-") = parse("\-"), parse("a-") = parse("a\-"),
\* parse("\"-a\"") = parse("\-a"), parse("-a") # parse("\-a")
HyphenExamples ==
    /\ InputIs(<<"-">>) => result = parse(<<Backslash, "-">>)
    /\ InputIs(<<"a", "-">>) => result = parse(<<"a", Backslash, "-">>)
    /\ InputIs(<<Quote, "-", "a", Quote>>) => result = parse(<<Backslash, "-", "a">>)
    /\ InputIs(<<"-", "a">>) => result # parse(<<Backslash, "-", "a">>)

\* C10 as stated: an unescaped '-' at the start of a node is consumed as a
\* negator if and only if the text right after it parses as a group or a text
\* term, and the node is then Not of it; otherwise the hyphen is parsed as part
\* of an unquoted text term; with the four examples.
C10_NegatorOrText ==
    /\ AtHyphen => IF AfterHyphen.st = "Ok" THEN Negates ELSE HyphenIsText
    /\ NegatedGroupReturns
    /\ HyphenExamples

\* C10 amended: the '-' is consumed as a negator if and only if the text right
\* after it parses as a group or a text term, and the node is then Not of it;
\* when that text is a soft mismatch (nothing, a space or a ')' follows the
\* hyphen) the hyphen is parsed as part of an unquoted text term; when it fails
\* hard (a missing key, an unclosed quote, an unknown escape, a failure in the
\* group) the parse fails with that failure; with the four examples.
C10_NegatorTextOrFailure ==
    /\ AtHyphen =>
          CASE AfterHyphen.st = "Ok" -> Negates
            [] AfterHyphen.st = "Error" -> HyphenIsText
            [] OTHER ->
                /\ node(remaining) = AfterHyphen
                /\ Step(Cfg) = Finished(ResultOf(AfterHyphen))
    /\ NegatedGroupReturns
    /\ HyphenExamples

\* parse has failed with MissingKey for -:a, where the text after the hyphen
\* fails hard.
C10_Witness ==
    /\ pc = "done"
    /\ input = <<"-", ":", "a">>
    /\ result = ResultErr(FailKind("MissingKey", NoArg))

(* ---------------------------------------------------------------------- *)
(* The predicates with a numeric argument                                  *)
(* ---------------------------------------------------------------------- *)

MaxCardPieces == 3

\* What a template is given as: digits up to the ends of 16 bits, signs, a
\* letter, and escapes, one of them unknown.
CardPieces ==
    {<<"0">>, <<"1">>, <<"6","5","5","3">>, <<"5">>, <<"6">>, <<"+">>, <<"-">>,
     <<"a">>, <<Backslash, "a">>, <<Backslash, "*">>}

CardKey == <<"c","a","r","d">>

\* The term on its own, and the term in a group.
Grouped(s) == <<"(">> \o s \o <<")">>

TermInputs(terms) == terms \cup {Grouped(s) : s \in terms}

CardTerms == {KeyVal(CardKey, V) : V \in Inputs(CardPieces, MaxCardPieces)}

InitCard == InitWith(TermInputs(CardTerms))

SpecCard == InitCard /\ [][Next]_vars

\* parse has returned for the term K:V on its own.
Returned(K) ==
    /\ pc = "done"
    /\ starts_with(input, K \o <<":">>)

\* The value of the term K:V.
ValueOf(K) == Suffix(input, Len(K) + 2)

\* parse has returned the one search node sn.
ReturnedNode(sn) == result = ResultOk(<<Search(sn)>>)

\* v is a decimal integer of at most max, max given by its digits.
DecimalUpTo(v, max) ==
    /\ v # <<>>
    /\ AllDigits(v)
    /\ DigitsLE(StripZeros(v), max)

\* max(N, 1) - 1
OrdinalOf(N) == (IF N > 1 THEN N ELSE 1) - 1

\* Every backslash of v starts a pair with a character that may be escaped.
RECURSIVE LegalEscapes(_)
LegalEscapes(v) ==
    IF v = <<>> THEN TRUE
    ELSE IF v[1] = Backslash
    THEN Len(v) > 1 /\ v[2] \in {Backslash, Quote, ":", "*", "_", "(", ")", "-"}
         /\ LegalEscapes(Suffix(v, 3))
    ELSE LegalEscapes(Tail(v))

\* The template is the name the value unescapes to.
NamedTemplate(v) ==
    ReturnedNode(CardTemplate(Name(Resolved(v, {Quote, ":", "(", ")", "-"}))))

\* C11 as stated: for key card with a value that is an unsigned 16-bit decimal
\* integer N the result is CardTemplate(Ordinal(max(N,1) - 1)), card:0 and
\* card:1 both giving ordinal 0 without underflow; any value that is not such
\* an integer gives CardTemplate(Name(unescaped value)).
C11_OrdinalOrName ==
    Returned(CardKey) =>
        IF DecimalUpTo(ValueOf(CardKey), U16Max)
        THEN ReturnedNode(CardTemplate(Ordinal(
                OrdinalOf(DigitsToInt(StripZeros(ValueOf(CardKey)))))))
        ELSE NamedTemplate(ValueOf(CardKey))

\* The value without the '+' that an integer may start with.
Unsigned(v) == IF v # <<>> /\ v[1] = "+" THEN Tail(v) ELSE v

\* C11 amended: for key card with a value that is a decimal integer N of at
\* most 65535, with or without a leading '+', the result is
\* CardTemplate(Ordinal(max(N,1) - 1)), card:0 and card:1 both giving ordinal 0
\* without underflow; any other value gives CardTemplate(Name(unescaped
\* value)) when its escapes are legal and fails with UnknownEscape when they
\* are not.
C11_OrdinalNameOrEscape ==
    Returned(CardKey) =>
        IF DecimalUpTo(Unsigned(ValueOf(CardKey)), U16Max)
        THEN ReturnedNode(CardTemplate(Ordinal(
                OrdinalOf(DigitsToInt(StripZeros(Unsigned(ValueOf(CardKey))))))))
        ELSE IF LegalEscapes(ValueOf(CardKey))
        THEN NamedTemplate(ValueOf(CardKey))
        ELSE result.st = "Err" /\ result.kind.name = "UnknownEscape"

\* parse has returned ordinal 0 for card:0.
C11_Witness ==
    /\ Returned(CardKey)
    /\ ValueOf(CardKey) = <<"0">>
    /\ ReturnedNode(CardTemplate(Ordinal(0)))

MaxNumberPieces == 2

\* What a number is given as: digits up to the ends of 32 bits, a sign and a
\* letter.
NumberPieces ==
    {<<"0">>, <<"3">>, <<"4","2","9","4","9","6","7","2","9">>, <<"5">>, <<"6">>,
     <<"+">>, <<"a">>}

\* The names of the properties with an unsigned number, and names in upper
\* case.
UnsignedProps ==
    {<<"i","v","l">>, <<"r","e","p","s">>, <<"l","a","p","s","e","s">>,
     <<"p","o","s">>}

UpperProps == {<<"D","U","E">>, <<"I","v","l">>, <<"P","O","S">>}

ComparisonOps == {<<"<","=">>, <<">","=">>, <<"!","=">>, <<"=">>, <<"<">>, <<">">>}

PropKey == <<"p","r","o","p">>

PropTerms ==
    {KeyVal(PropKey, p \o op \o n) :
        p \in UnsignedProps \cup UpperProps,
        op \in ComparisonOps \cup {<<>>},
        n \in Inputs(NumberPieces, MaxNumberPieces)}

InitProp == InitWith(TermInputs(PropTerms))

SpecProp == InitProp /\ [][Next]_vars

\* The variant of PropertyKind for the name p.
VariantOf(p) ==
    CASE p = <<"i","v","l">> -> "Interval"
      [] p = <<"r","e","p","s">> -> "Reps"
      [] p = <<"l","a","p","s","e","s">> -> "Lapses"
      [] p = <<"p","o","s">> -> "Position"

\* The value is p, op and an unsigned 32-bit decimal integer.
IsComparison(v, p, op) ==
    /\ starts_with(v, p \o op)
    /\ DecimalUpTo(Suffix(v, Len(p) + Len(op) + 1), U32Max)

\* The number of the comparison, without leading zeros.
NumberOf(v, p, op) == Num(FALSE, StripZeros(Suffix(v, Len(p) + Len(op) + 1)))

\* C12: for every name p in {ivl, reps, lapses, pos}, every operator op in
\* {<=, >=, !=, =, <, >} and every unsigned 32-bit decimal integer n, parsing
\* prop:<p><op><n> yields Property whose operator is exactly op, the operators
\* of two characters never split, and whose kind is the variant for p carrying
\* n; names are matched case-sensitively: a name in upper case fails with
\* InvalidPropProperty carrying the whole value.
C12_PropertyGrammar ==
    Returned(PropKey) =>
        /\ \A p \in UnsignedProps : \A op \in ComparisonOps :
              IsComparison(ValueOf(PropKey), p, op) =>
                  ReturnedNode(Property(op,
                      [p |-> VariantOf(p), n |-> NumberOf(ValueOf(PropKey), p, op)]))
        /\ \A p \in UpperProps :
              starts_with(ValueOf(PropKey), p) =>
                  result = ResultErr(FailKind("InvalidPropProperty", ValueOf(PropKey)))

\* parse has returned the comparison <= with 4294967295, the largest number of
\* 32 bits, for prop:lapses<=4294967295.
C12_Witness ==
    /\ Returned(PropKey)
    /\ ValueOf(PropKey) = <<"l","a","p","s","e","s","<","=">> \o U32Max
    /\ ReturnedNode(Property(<<"<","=">>,
            [p |-> "Lapses", n |-> Num(FALSE, U32Max)]))

\* parse has failed with UnknownEscape.
FailedOnEscape ==
    /\ pc = "done"
    /\ result.st = "Err"
    /\ result.kind.name = "UnknownEscape"

\* seq is a backslash of the input and the one character after it, or a
\* backslash alone that the input or a term ends on.
BackslashAndOffender(seq) ==
    \E i \in 1..Len(input) :
        /\ input[i] = Backslash
        /\ \/ i < Len(input) /\ seq = <<Backslash, input[i + 1]>>
           \/ /\ seq = <<Backslash>>
              /\ i = Len(input) \/ input[i + 1] \in TermDelimiters

\* C13: whenever parse fails with UnknownEscape, the sequence carried is the
\* first illegally used backslash and the one offending character after it, or
\* the backslash alone when the term or the input ends on it, also for an
\* unquoted term where a backslash is followed by a space and more text.
C13_EscapePayload ==
    FailedOnEscape => BackslashAndOffender(result.kind.arg)

\* The top-level group_inner has left its loop and is about to return.
TopLevelReturns == pc = "break" /\ Len(stack) = 1

\* What the top-level group_inner returns.
TopLevelResult == group_inner_end(Top(stack).input, remaining, Top(stack).nodes)

\* The number of backslashes s ends with.
RECURSIVE TrailingBackslashes(_)
TrailingBackslashes(s) ==
    IF s # <<>> /\ s[Len(s)] = Backslash
    THEN 1 + TrailingBackslashes(Prefix(s, Len(s) - 1))
    ELSE 0

\* rest is what is left of s, and starts with a ')' that no backslash escapes.
LeftAtUnescapedClose(s, rest) ==
    /\ rest = Suffix(s, Len(s) - Len(rest) + 1)
    /\ rest[1] = ")"
    /\ TrailingBackslashes(Prefix(s, Len(s) - Len(rest))) % 2 = 0

\* C14: whenever the top-level group_inner call succeeds but leaves input
\* unconsumed, what is left begins with an unescaped ')' and parse fails with
\* UnopenedGroup; parse returns Ok only when the whole trimmed input has been
\* consumed.
C14_UnopenedGroup ==
    TopLevelReturns /\ TopLevelResult.st = "Ok" =>
        /\ Top(stack).input = trim(input)
        /\ TopLevelResult.rem # <<>> =>
              /\ LeftAtUnescapedClose(trim(input), TopLevelResult.rem)
              /\ Step(Cfg) = Finished(ResultErr(FailKind("UnopenedGroup", NoArg)))
        /\ Step(Cfg).result.st = "Ok" => TopLevelResult.rem = <<>>

\* The top-level group_inner returns with ')' left after an escaped backslash.
C14_Witness ==
    /\ TopLevelReturns
    /\ input = <<Backslash, Backslash, ")">>
    /\ TopLevelResult = Ok(<<")">>, <<Search(UnqualifiedText(<<Backslash, Backslash>>))>>)

MaxDupePieces == 3

\* What the text of a duplicate search is made of: a letter, a comma, and
\* backslashes before a quote, a backslash and a letter.
DupePieces ==
    {<<"a">>, <<",">>, <<Backslash, Quote>>, <<Backslash, Backslash>>,
     <<Backslash, "a">>}

\* Note type ids: none, integers with and without sign up to the ends of 64
\* bits, and text that is no integer.
DupeIds ==
    {<<>>, <<"1">>, <<"1","2","3">>, <<"0","7">>, <<"-","5">>, <<"+","7">>,
     <<"a">>, <<"1",".","1">>, I64Max, <<"-">> \o I64MinAbs, I64MinAbs}

DupeKey == <<"d","u","p","e">>

DupeTerms ==
    {KeyVal(DupeKey, id \o rest) :
        id \in DupeIds,
        rest \in {<<>>} \cup {<<",">> \o t : t \in Inputs(DupePieces, MaxDupePieces)}}

InitDupe == InitWith(TermInputs(DupeTerms))

SpecDupe == InitDupe /\ [][Next]_vars

\* The value up to its first comma, and after it.
BeforeComma(v) ==
    IF first_index(v, ",", 1) = 0 THEN v ELSE Prefix(v, first_index(v, ",", 1) - 1)

AfterComma(v) == Suffix(v, first_index(v, ",", 1) + 1)

\* v is a decimal integer of 64 bits, with or without sign.
IsId(v) ==
    IF v # <<>> /\ v[1] = "-" THEN DecimalUpTo(Tail(v), I64MinAbs)
    ELSE DecimalUpTo(Unsigned(v), I64Max)

IdOf(v) ==
    IF v[1] = "-" THEN Num(StripZeros(Tail(v)) # <<"0">>, StripZeros(Tail(v)))
    ELSE Num(FALSE, StripZeros(Unsigned(v)))

\* C15: for key dupe, a value whose part before the first comma is no valid
\* note type id fails with InvalidDupeMid; a value with a valid id but no
\* comma, or no text after the comma, fails with InvalidDupeText; only a value
\* <id>,<non-empty text> yields Duplicates with that id and the text with \"
\* and \\ resolved.
C15_Duplicates ==
    Returned(DupeKey) =>
        IF ~IsId(BeforeComma(ValueOf(DupeKey)))
        THEN result = ResultErr(FailKind("InvalidDupeMid", NoArg))
        ELSE IF first_index(ValueOf(DupeKey), ",", 1) = 0
                \/ AfterComma(ValueOf(DupeKey)) = <<>>
        THEN result = ResultErr(FailKind("InvalidDupeText", NoArg))
        ELSE ReturnedNode([kind |-> "Duplicates",
                note_type_id |-> IdOf(BeforeComma(ValueOf(DupeKey))),
                text |-> Resolved(AfterComma(ValueOf(DupeKey)), {Quote, Backslash})])

(* ---------------------------------------------------------------------- *)
(* Termination                                                             *)
(* ---------------------------------------------------------------------- *)

MaxNestedPieces == 4

\* A word, a connective, and what opens, closes and negates a group.
NestedPieces == {<<"a">>, <<"a","n","d">>, <<" ">>, <<"(">>, <<")">>, <<"-">>}

InitNested == InitWith(Inputs(NestedPieces, MaxNestedPieces))

\* The configuration after the step Next takes.
Successor == IF pc = "start" THEN parse_start(input) ELSE Step(Cfg)

\* Next can be taken: its step changes the state.
CanStep == pc # "done" /\ Successor # Cfg

\* parse is one synchronous call, a step that can be taken is taken: weak
\* fairness of Next, WF_vars(Next), with ENABLED <<Next>>_vars written out as
\* CanStep.
Fairness == []<>(~CanStep) \/ []<><<Next>>_vars

SpecLive == InitNested /\ [][Next]_vars /\ Fairness

\* The number of '(' in s.
OpenCount(s) == Cardinality({i \in 1..Len(s) : s[i] = "("})

\* The calls of group_inner made by group are at most the '(' of the input.
DepthBounded == Len(stack) <= 1 + OpenCount(input)

\* A node call that succeeds leaves less input than it was given: in the same
\* loop, on entering a group, and once the group it entered has returned.
NodeConsumes ==
    /\ pc = "loop" /\ pc' = "loop" => Len(remaining') < Len(remaining)
    /\ pc = "break" /\ pc' = "loop" => Len(remaining') < Len(Top(stack).caller)

\* C16: for every finite input parse eventually returns; every node call that
\* succeeds inside the loop of group_inner consumes at least one character of
\* the remaining input, so that the loop runs at most as many times as there
\* are characters left; the depth of the group recursion is at most the
\* number of '(' characters.
C16_Termination ==
    /\ [](pc # "done" => CanStep)
    /\ []DepthBounded
    /\ [][NodeConsumes]_vars
    /\ <>(pc = "done")

\* Two groups are open, one in the other, and the loop of the inner one has
\* consumed both '('.
C16_Witness ==
    /\ pc = "loop"
    /\ Len(stack) = 3
    /\ input = <<"(", "(", "a", ")">>
    /\ remaining = <<"a", ")">>

(* ---------------------------------------------------------------------- *)
(* Panics                                                                  *)
(* ---------------------------------------------------------------------- *)

MaxPanicPieces == 3

\* The characters with a meaning to the parser, both kinds of space, and
\* escapes.
PanicPieces ==
    {<<"a">>, <<":">>, <<Quote>>, <<Backslash>>, <<"-">>, <<"(">>, <<")">>,
     <<" ">>, <<IdeographicSpace>>, <<Backslash, Backslash>>,
     <<Backslash, "-">>, <<Backslash, IdeographicSpace>>}

\* Templates and comparisons with the least and the largest numbers, and with
\* text that is no number.
PanicTerms ==
    {KeyVal(CardKey, n) : n \in {<<"0">>, <<"1">>, <<"+","0">>, U16Max, <<"a">>}}
    \cup {KeyVal(PropKey, p \o op \o n) :
            p \in UnsignedProps, op \in ComparisonOps,
            n \in {<<"0">>, U32Max, <<"a">>}}

InitPanic ==
    InitWith(Inputs(PanicPieces, MaxPanicPieces) \cup TermInputs(PanicTerms))

SpecPanic == InitPanic /\ [][Next]_vars

\* The input of node's parsers: the remaining input after its leading space.
AtNode == whitespace0(remaining)

\* escaped as unquoted_term runs it, and as quoted_term_str runs it after the
\* opening quote.
UnquotedEscaped == escaped(AtNode, TermDelimiters \cup {Backslash}, SpaceChars)

QuotedEscaped == escaped(Tail(AtNode), {Quote, Backslash}, {})

\* The unwrap of unquoted_term and of quoted_term_str is given a first
\* character.
UnwrapsSome ==
    /\ UnquotedEscaped.st # "Ok" => AtNode # <<>>
    /\ AtNode # <<>> /\ AtNode[1] = Quote /\ QuotedEscaped.st # "Ok"
          => Tail(AtNode) # <<>>

\* The terms search_node_for_text is called with by node here: the inside of a
\* quoted term, an unquoted term.
TermsAtNode ==
    (IF quoted_term_str(AtNode).st = "Ok" THEN {quoted_term_str(AtNode).out} ELSE {})
    \cup (IF UnquotedEscaped.st = "Ok" /\ UnquotedEscaped.out # <<>>
          THEN {UnquotedEscaped.out} ELSE {})

\* Where search_node_for_text takes tail[1..] of the term, tail starts with
\* ':'.
SlicesAtColon(term) ==
    /\ escaped(term, {":", Backslash}, {}).st = "Ok"
    /\ escaped(term, {":", Backslash}, {}).out # <<>>
    /\ escaped(term, {":", Backslash}, {}).rem # <<>>
    => escaped(term, {":", Backslash}, {}).rem[1] = ":"

\* C17: for every input no execution of parse reaches a panicking operation:
\* the unwrap on the first character in unquoted_term and quoted_term_str is
\* reached with non-empty input only, tail[1..] in search_node_for_text is taken
\* only when tail starts with ':', the unreachable!() arms of unescape and
\* parse_prop are never reached, and n.max(1) - 1 in parse_template never
\* underflows.
C17_NoPanic ==
    /\ result.st # "Panic"
    /\ pc = "loop" =>
          /\ UnwrapsSome
          /\ \A term \in TermsAtNode : SlicesAtColon(term)
          /\ Step(Cfg).result.st # "Panic"

\* parse has returned for an escaped backslash before an escaped hyphen, which
\* unescape's closure replaces one after the other.
C17_Witness ==
    /\ pc = "done"
    /\ input = <<Backslash, Backslash, Backslash, "-">>
    /\ ReturnedNode(UnqualifiedText(<<Backslash, Backslash, "-">>))

====
